---- MODULE Spec2Model ----
(***************************************************************************)
(* Model of the alpha-beta agent B22ES027 (src/ai_player.py): the          *)
(* evaluator, the move ordering, the transposition table, the recursive    *)
(* search _alphabeta / _alphabeta_root with an explicit call stack, and    *)
(* the iterative-deepening driver get_best_move with its wall-clock        *)
(* deadline.  The Board (board.py) is an external collaborator: it is      *)
(* modelled as a small fixed game graph with push/pop.                     *)
(***************************************************************************)
EXTENDS Integers, Sequences, FiniteSets, TLC

VARIABLES
    pc,          \* where get_best_move is: "idle", "iter", "search", "post", "done"
    board,       \* self.board: the sequence of positions pushed, current one last
    time_left,   \* board.time_left: <<>> when the board has no such attribute
    depth,       \* self.depth
    tt,          \* self.transposition_table: hash -> [value, depth]
    start_time,  \* self.start_time
    max_time,    \* self.max_time
    now,         \* the reading time.time() gives
    d,           \* loop variable d of get_best_move
    best_move,   \* local best_move of get_best_move
    best_score,  \* local best_score of get_best_move
    stack,       \* call stack: the frame of _alphabeta_root, then _alphabeta frames
    ret,         \* value returned by the callee that has just returned: <<>> or <<v>>
    root_ret,    \* (score, move) returned by _alphabeta_root: <<>> or <<[score, move]>>
    result,      \* what get_best_move returned
    calls,       \* number of get_best_move calls made on this engine instance
    board0,      \* history: the board as it was when get_best_move was called
    last_iter,   \* history: (score, move) of the last _alphabeta_root that returned
    timeout_at,  \* history: the d whose iteration raised TimeoutError, 0 if none
    applied,     \* history: number of moves applied during this call
    hit,         \* history: the last transposition-table hit of this call
    first_test,  \* history: now - start_time at the first deadline test, -1 before
    partial,     \* history: best_move of _alphabeta_root when TimeoutError passed it
    ev_in,       \* evaluator harness: the position handed to _evaluate_board
    ev_out       \* evaluator harness: the scores returned, per side to move

vars == <<pc, board, time_left, depth, tt, start_time, max_time, now, d, best_move, best_score,
          stack, ret, root_ret, result, calls, board0, last_iter, timeout_at,
          applied, hit, first_test, partial, ev_in, ev_out>>

evalVars == <<ev_in, ev_out>>

searchVars == <<pc, board, time_left, depth, tt, start_time, max_time, now, d, best_move,
                best_score, stack, ret, root_ret, result, calls, board0, last_iter,
                timeout_at, applied, hit, first_test, partial>>

\* what only the call itself sets
callVars == <<time_left, depth, start_time, max_time, calls, board0>>

(***************************************************************************)
(* Bounds of the model                                                     *)
(***************************************************************************)
MaxDepth == 3      \* self.depth ranges over 0..MaxDepth
MaxElapsed == 2    \* the clock advances at most this far during one call
MaxCalls == 2      \* get_best_move calls on one engine instance
MaxMobility == 2   \* legal-move counts handed to the evaluator harness

(***************************************************************************)
(* Program constants                                                       *)
(***************************************************************************)
INF == 1000000         \* float('inf'); every score is far below it
PV_P == 20
PV_B == 70
PV_N == 70
PV_K == 10000
CHECK_BONUS == 2
TIME_LIMIT_PCT == 90   \* self.time_limit = 0.9, in hundredths
SAFETY_PCT == 95       \* the 0.95 of the deadline, in hundredths
DEFAULT_MAX_TIME == 15 \* 1.5 seconds; the clock counts tenths of a second

None == "None"

Min(a, b) == IF a <= b THEN a ELSE b

(***************************************************************************)
(* Strings the code inspects by prefix are sequences of characters.        *)
(***************************************************************************)
UpperChar(c) ==
    CASE c = "p" -> "P" [] c = "b" -> "B" [] c = "n" -> "N" [] c = "k" -> "K"
      [] c = "t" -> "T" [] c = "w" -> "W" [] c = "q" -> "Q" [] OTHER -> c

Upper(s) == [i \in 1..Len(s) |-> UpperChar(s[i])]

StartsWith(s, pre) == Len(s) >= Len(pre) /\ SubSeq(s, 1, Len(pre)) = pre

(***************************************************************************)
(* _evaluate_board                                                         *)
(***************************************************************************)
PieceValue(p) ==
    LET pt == Upper(p) IN
    IF StartsWith(pt, <<"P">>) THEN PV_P
    ELSE IF StartsWith(pt, <<"B">>) THEN PV_B
    ELSE IF StartsWith(pt, <<"N">>) \/ StartsWith(pt, <<"K", "N", "T">>) THEN PV_N
    ELSE IF StartsWith(pt, <<"K">>) /\ ~StartsWith(pt, <<"K", "N">>) THEN PV_K
    ELSE 0

RECURSIVE material_from_piece_list(_)
material_from_piece_list(piece_list) ==
    IF piece_list = <<>> THEN 0
    ELSE PieceValue(Head(piece_list)) + material_from_piece_list(Tail(piece_list))

\* white_pieces, black_pieces: the piece lists; mobility: the number of legal moves
\* of the position; opponent_in_check: what board.is_in_check answers; turn: board.turn
EvaluateBoard(white_pieces, black_pieces, mobility, opponent_in_check, turn) ==
    LET white_material == material_from_piece_list(white_pieces)
        black_material == material_from_piece_list(black_pieces)
        white_score == white_material + mobility * 1
                       + (IF opponent_in_check /\ turn = <<"W">> THEN CHECK_BONUS ELSE 0)
        black_score == black_material
                       + (IF opponent_in_check /\ turn # <<"W">> THEN CHECK_BONUS ELSE 0)
        raw == white_score - black_score
    IN IF StartsWith(Upper(turn), <<"W">>) THEN raw ELSE -raw

(***************************************************************************)
(* The Board: a fixed game graph.  A position has the side to move, the    *)
(* piece lists, the check answer, the game-over answer and its legal       *)
(* moves; a move has its target position and the capture metadata the      *)
(* move ordering reads.                                                    *)
(***************************************************************************)
White == <<"W">>
Black == <<"B">>
Kg == <<"K">>
Pn == <<"P">>

Mv(to, attrs, is_capture, captured, text_x) ==
    [to |-> to, attrs |-> attrs, is_capture |-> is_capture, captured |-> captured,
     text_x |-> text_x]

Quiet(to) == Mv(to, {"is_capture", "captured"}, FALSE, <<>>, FALSE)

MoveTab ==
    [ Ra  |-> Quiet("A"),
      Rb  |-> Quiet("B"),
      Ax  |-> Quiet("X"),
      Ay  |-> Mv("Y", {"captured"}, FALSE, <<"p">>, FALSE),
      Bx  |-> Mv("X", {"is_capture", "captured"}, TRUE, <<>>, TRUE),
      Bz  |-> Mv("Z", {}, FALSE, <<>>, FALSE),
      X1  |-> Quiet("L1"),
      X2  |-> Quiet("L2"),
      L1x |-> Quiet("X") ]

Ps(turn, wp, bp, chk, over, moves) ==
    [turn |-> turn, white_pieces |-> wp, black_pieces |-> bp, in_check |-> chk,
     game_over |-> over, moves |-> moves]

Game ==
    [ R  |-> Ps(White, <<Kg, Pn, Pn>>, <<Kg, Pn>>, FALSE, FALSE, <<"Ra", "Rb">>),
      A  |-> Ps(Black, <<Kg, Pn>>, <<Kg, Pn>>, FALSE, FALSE, <<"Ax", "Ay">>),
      B  |-> Ps(Black, <<Kg, Pn, Pn>>, <<Kg, Pn>>, FALSE, FALSE, <<"Bx", "Bz">>),
      X  |-> Ps(White, <<Kg, Pn>>, <<Kg, Pn>>, FALSE, FALSE, <<"X1", "X2">>),
      Y  |-> Ps(White, <<Kg>>, <<Kg, Pn>>, FALSE, FALSE, <<>>),
      Z  |-> Ps(White, <<Kg, Pn, Pn>>, <<Kg, Pn>>, FALSE, TRUE, <<>>),
      L1 |-> Ps(Black, <<Kg, Pn>>, <<Kg, Pn>>, TRUE, FALSE, <<"L1x">>),
      L2 |-> Ps(Black, <<Kg, Pn>>, <<Kg, Pn>>, FALSE, FALSE, <<>>) ]

Positions == DOMAIN Game
Roots == {"R", "A", "Z"}

\* board.get_legal_moves, board.is_game_over, board.get_hash, board.push, board.pop
get_legal_moves(b) == Game[b[Len(b)]].moves
is_game_over(b) == Game[b[Len(b)]].game_over
get_hash(b) == b[Len(b)]
push(b, move) == Append(b, MoveTab[move].to)
pop(b) == SubSeq(b, 1, Len(b) - 1)

\* the adapters of the engine
_board_hash(b) == get_hash(b)
_get_legal_moves(b) == get_legal_moves(b)
_is_terminal(b) == is_game_over(b)

_evaluate_board(b) ==
    LET p == Game[b[Len(b)]] IN
    EvaluateBoard(p.white_pieces, p.black_pieces, Len(_get_legal_moves(b)),
                  p.in_check, p.turn)

(***************************************************************************)
(* _move_sort_key and sorted(..., reverse=True)                            *)
(***************************************************************************)
CaptureBonus(c, unknown) ==
    IF StartsWith(c, <<"P">>) THEN 20
    ELSE IF StartsWith(c, <<"B">>) THEN 70
    ELSE IF StartsWith(c, <<"N">>) THEN 70
    ELSE IF StartsWith(c, <<"K">>) THEN 600
    ELSE unknown

\* KILLER_MOVES is never written, so the killer bonus is always 0
_move_sort_key(move) ==
    LET m == MoveTab[move] IN
    IF "is_capture" \in m.attrs /\ m.is_capture
    THEN IF m.captured # <<>> THEN CaptureBonus(Upper(m.captured), 0) ELSE 50
    ELSE IF "captured" \in m.attrs /\ m.captured # <<>>
    THEN CaptureBonus(Upper(m.captured), 40)
    ELSE IF m.text_x THEN 40 ELSE 0

\* position of m in the descending stable order: after every element whose key
\* is not smaller
RECURSIVE InsertDesc(_, _)
InsertDesc(m, s) ==
    IF s = <<>> THEN <<m>>
    ELSE IF _move_sort_key(Head(s)) >= _move_sort_key(m)
         THEN <<Head(s)>> \o InsertDesc(m, Tail(s))
         ELSE <<m>> \o s

RECURSIVE SortedDesc(_)
SortedDesc(moves) ==
    IF moves = <<>> THEN <<>>
    ELSE InsertDesc(moves[Len(moves)], SortedDesc(SubSeq(moves, 1, Len(moves) - 1)))

(***************************************************************************)
(* The deadline test of lines 54, 186 and 206, in tenths of a second       *)
(* scaled by 100                                                           *)
(***************************************************************************)
Expired ==
    100 * (now - start_time) > Min(max_time * TIME_LIMIT_PCT, SAFETY_PCT * max_time)

(***************************************************************************)
(* Transposition table                                                     *)
(***************************************************************************)
TTGet(t, bh) == IF bh \in DOMAIN t THEN <<t[bh]>> ELSE <<>>

\* variant: the stored depth must exceed the requested one
TTUsableStrict(found, dep) == found # <<>> /\ found[1].depth > dep

\* tt is not None and tt.get('depth', -1) >= depth
TTUsable(found, dep) == found # <<>> /\ found[1].depth >= dep

TTStore(t, bh, val, dep) ==
    [h \in DOMAIN t \cup {bh} |-> IF h = bh THEN [value |-> val, depth |-> dep] ELSE t[h]]

(***************************************************************************)
(* Pieces of get_best_move and of the two search functions                 *)
(***************************************************************************)
\* variant: a time_left of 0 is taken for a missing one (getattr(...) or 1.5)
MaxTimeFalsy(tl) == IF tl = <<>> \/ tl[1] = 0 THEN DEFAULT_MAX_TIME ELSE tl[1]

\* self.max_time = getattr(self.board, 'time_left', None), 1.5 when that is None
MaxTime(tl) == IF tl = <<>> THEN DEFAULT_MAX_TIME ELSE tl[1]

\* variant: the local is not reset and keeps the previous call's move
InitBestMoveStale(previous) == previous

\* best_move = None at the start of get_best_move; previous is what the local held
InitBestMove(previous) == None

\* variant: the test is inverted
UpdateBestInverted(bm, bs, move, score) ==
    IF move = None THEN [move |-> move, score |-> score] ELSE [move |-> bm, score |-> bs]

\* if move is not None: best_move, best_score = move, score
UpdateBest(bm, bs, move, score) ==
    IF move # None THEN [move |-> move, score |-> score] ELSE [move |-> bm, score |-> bs]

\* variant: the comparison is turned round
RootBetterReversed(score, best) == score < best

\* if score > best_score
RootBetter(score, best) == score > best

\* variant: the undo is left out
UndoSkipped(b, undo_info) == b

\* if undo_info is True and hasattr(self.board, 'pop'): self.board.pop()
Undo(b, undo_info) == IF undo_info = "True" THEN pop(b) ELSE b

Frame(kind, dep, alpha, beta, phase) ==
    [kind |-> kind, depth |-> dep, alpha |-> alpha, beta |-> beta, phase |-> phase,
     ordered |-> <<>>, i |-> 1, value |-> -INF, best_move |-> None, bh |-> "",
     found |-> <<>>, undo_info |-> "None"]

Top == stack[Len(stack)]
Below == SubSeq(stack, 1, Len(stack) - 1)

TimeLeft == {<<>>, <<0>>, <<2>>}   \* board.time_left: absent, 0 s, 0.2 s

NoEvalIn ==
    [white_pieces |-> <<>>, black_pieces |-> <<>>,
     mobility |-> [s \in {"W", "B"} |-> 0], in_check |-> [s \in {"W", "B"} |-> FALSE]]
NoEvalOut == [s \in {"W", "B"} |-> <<>>]

InitSearch ==
    /\ pc = "idle"
    /\ board = <<"R">>
    /\ time_left = <<>>
    /\ depth = MaxDepth
    /\ tt = [h \in {} |-> [value |-> 0, depth |-> 0]]
    /\ start_time = 0
    /\ max_time = 0
    /\ now = 0
    /\ d = 0
    /\ best_move = None
    /\ best_score = -INF
    /\ stack = <<>>
    /\ ret = <<>>
    /\ root_ret = <<>>
    /\ result = None
    /\ calls = 0
    /\ board0 = <<"R">>
    /\ last_iter = <<>>
    /\ timeout_at = 0
    /\ applied = 0
    /\ hit = <<>>
    /\ first_test = -1
    /\ partial = None

Init ==
    /\ InitSearch
    /\ ev_in = NoEvalIn
    /\ ev_out = NoEvalOut

\* get_best_move, lines 40-49: called on position r with board.time_left = tl and
\* self.depth = md
Call(r, tl, md) ==
    /\ pc \in {"idle", "done"}
    /\ calls < MaxCalls
    /\ calls' = calls + 1
    /\ board' = <<r>>
    /\ board0' = <<r>>
    /\ time_left' = tl
    /\ depth' = md
    /\ now' = 0                 \* only now - start_time is read: the origin of
    /\ start_time' = now'       \* the clock is moved to the call
    /\ max_time' = MaxTime(tl)
    /\ best_move' = InitBestMove(best_move)
    /\ best_score' = -INF
    /\ d' = 1
    /\ pc' = IF 1 <= md THEN "iter" ELSE "done"
    /\ result' = IF 1 <= md THEN None ELSE best_move'
    /\ stack' = <<>>
    /\ ret' = <<>>
    /\ root_ret' = <<>>
    /\ last_iter' = <<>>
    /\ timeout_at' = 0
    /\ applied' = 0
    /\ hit' = <<>>
    /\ first_test' = -1
    /\ partial' = None
    /\ UNCHANGED <<tt, evalVars>>

\* a deadline test reads the clock
NoteTest == first_test' = IF first_test = -1 THEN now - start_time ELSE first_test

\* TimeoutError raised at line 187 or 207 and caught at line 56: no frame on the
\* way has a handler, so the board stays as it is
Timeout ==
    /\ pc' = "done"
    /\ result' = best_move
    /\ timeout_at' = d
    /\ partial' = stack[1].best_move
    /\ stack' = <<>>
    /\ ret' = <<>>
    /\ UNCHANGED <<board, tt, now, d, best_move, best_score, root_ret, last_iter,
                   applied, hit, callVars, evalVars>>

\* _alphabeta_root, lines 180-184
RootEnter ==
    /\ pc = "iter"
    /\ LET legal_moves == _get_legal_moves(board) IN
       IF legal_moves = <<>>
       THEN /\ root_ret' = <<[score |-> _evaluate_board(board), move |-> None]>>
            /\ pc' = "post"
            /\ stack' = stack
       ELSE /\ stack' = <<[Frame("root", d, -INF, INF, "loop")
                            EXCEPT !.ordered = SortedDesc(legal_moves)]>>
            /\ pc' = "search"
            /\ root_ret' = root_ret
    /\ UNCHANGED <<board, tt, now, d, best_move, best_score, ret, result, last_iter,
                   timeout_at, applied, hit, first_test, partial, callVars, evalVars>>

\* _alphabeta_root, lines 185-196: the deadline test, the push, the call
RootLoop ==
    /\ pc = "search"
    /\ Len(stack) = 1
    /\ ret = <<>>
    /\ NoteTest
    /\ IF Expired
       THEN Timeout
       ELSE LET f == Top IN
            /\ board' = push(board, f.ordered[f.i])
            /\ applied' = applied + 1
            /\ stack' = <<[f EXCEPT !.undo_info = "True"],
                          Frame("node", f.depth - 1, -f.beta, -f.alpha, "entry")>>
            /\ UNCHANGED <<pc, tt, now, d, best_move, best_score, ret, root_ret, result,
                           last_iter, timeout_at, hit, partial, callVars, evalVars>>

\* _alphabeta_root, lines 196-203: the callee has returned
RootReturn ==
    /\ pc = "search"
    /\ Len(stack) = 1
    /\ ret # <<>>
    /\ LET f == Top
           score == -ret[1]
           better == RootBetter(score, f.value)
           nv == IF better THEN score ELSE f.value
           nm == IF better THEN f.ordered[f.i] ELSE f.best_move
           na == IF nv > f.alpha THEN nv ELSE f.alpha
       IN /\ board' = Undo(board, f.undo_info)
          /\ ret' = <<>>
          /\ IF na >= f.beta \/ f.i = Len(f.ordered)
             THEN /\ root_ret' = <<[score |-> nv, move |-> nm]>>
                  /\ stack' = <<>>
                  /\ pc' = "post"
             ELSE /\ stack' = <<[f EXCEPT !.value = nv, !.best_move = nm, !.alpha = na,
                                          !.i = f.i + 1, !.undo_info = "None"]>>
                  /\ UNCHANGED <<root_ret, pc>>
    /\ UNCHANGED <<tt, now, d, best_move, best_score, result, last_iter, timeout_at,
                   applied, hit, first_test, partial, callVars, evalVars>>

\* _alphabeta, lines 206-222: deadline test, table lookup, leaf, expansion
NodeEntry ==
    /\ pc = "search"
    /\ Len(stack) > 1
    /\ Top.phase = "entry"
    /\ NoteTest
    /\ IF Expired
       THEN Timeout
       ELSE LET f == Top
                bh == _board_hash(board)
                found == TTGet(tt, bh)
                legal_moves == _get_legal_moves(board)
                val == _evaluate_board(board)
            IN /\ IF TTUsable(found, f.depth)
                  THEN /\ ret' = <<found[1].value>>
                       /\ stack' = Below
                       /\ tt' = tt
                       /\ hit' = <<[pos |-> board[Len(board)], depth |-> f.depth,
                                    alpha |-> f.alpha, beta |-> f.beta,
                                    value |-> found[1].value]>>
                  ELSE IF f.depth = 0 \/ _is_terminal(board) \/ legal_moves = <<>>
                  THEN /\ tt' = TTStore(tt, bh, val, f.depth)
                       /\ ret' = <<val>>
                       /\ stack' = Below
                       /\ hit' = hit
                  ELSE /\ stack' = Below \o
                            <<[f EXCEPT !.phase = "loop", !.bh = bh, !.found = found,
                                        !.ordered = SortedDesc(legal_moves)]>>
                       /\ UNCHANGED <<tt, ret, hit>>
               /\ UNCHANGED <<pc, board, now, d, best_move, best_score, root_ret, result,
                              last_iter, timeout_at, applied, partial, callVars, evalVars>>

\* _alphabeta, lines 223-229: the push and the recursive call
NodeLoop ==
    /\ pc = "search"
    /\ Len(stack) > 1
    /\ Top.phase = "loop"
    /\ ret = <<>>
    /\ LET f == Top IN
       /\ board' = push(board, f.ordered[f.i])
       /\ applied' = applied + 1
       /\ stack' = Below \o <<[f EXCEPT !.undo_info = "True"],
                               Frame("node", f.depth - 1, -f.beta, -f.alpha, "entry")>>
    /\ UNCHANGED <<pc, tt, now, d, best_move, best_score, ret, root_ret, result,
                   last_iter, timeout_at, hit, first_test, partial, callVars, evalVars>>

\* _alphabeta, lines 229-236: the callee has returned
NodeReturn ==
    /\ pc = "search"
    /\ Len(stack) > 1
    /\ Top.phase = "loop"
    /\ ret # <<>>
    /\ LET f == Top
           score == -ret[1]
           nv == IF score > f.value THEN score ELSE f.value
           na == IF nv > f.alpha THEN nv ELSE f.alpha
       IN /\ board' = Undo(board, f.undo_info)
          /\ IF na >= f.beta \/ f.i = Len(f.ordered)
             THEN /\ tt' = TTStore(tt, f.bh, nv, f.depth)
                  /\ ret' = <<nv>>
                  /\ stack' = Below
             ELSE /\ stack' = Below \o <<[f EXCEPT !.value = nv, !.alpha = na,
                                                   !.i = f.i + 1, !.undo_info = "None"]>>
                  /\ ret' = <<>>
                  /\ tt' = tt
    /\ UNCHANGED <<pc, now, d, best_move, best_score, root_ret, result, last_iter,
                   timeout_at, applied, hit, first_test, partial, callVars, evalVars>>

\* get_best_move, lines 52-55 and 58: _alphabeta_root has returned
Post ==
    /\ pc = "post"
    /\ NoteTest
    /\ LET rr == root_ret[1]
           upd == UpdateBest(best_move, best_score, rr.move, rr.score)
       IN /\ best_move' = upd.move
          /\ best_score' = upd.score
          /\ last_iter' = <<[d |-> d, score |-> rr.score, move |-> rr.move]>>
          /\ root_ret' = <<>>
          /\ IF Expired \/ d + 1 > depth
             THEN /\ pc' = "done"
                  /\ result' = upd.move
                  /\ d' = d
             ELSE /\ pc' = "iter"
                  /\ d' = d + 1
                  /\ result' = result
    /\ UNCHANGED <<board, tt, now, stack, ret, timeout_at, applied, hit, partial,
                   callVars, evalVars>>

\* the wall clock advances while get_best_move runs
Tick ==
    /\ pc \in {"iter", "search", "post"}
    /\ now - start_time < MaxElapsed
    /\ now' = now + 1
    /\ UNCHANGED <<pc, board, tt, d, best_move, best_score, stack, ret, root_ret, result,
                   last_iter, timeout_at, applied, hit, first_test, partial, callVars,
                   evalVars>>

Next ==
    \/ \E r \in Roots, tl \in TimeLeft, md \in 0..MaxDepth : Call(r, tl, md)
    \/ RootEnter
    \/ RootLoop
    \/ RootReturn
    \/ NodeEntry
    \/ NodeLoop
    \/ NodeReturn
    \/ Post
    \/ Tick

Spec == Init /\ [][Next]_vars

(***************************************************************************)
(* The evaluator on its own: evaluate_board (lines 60-62) applied to one   *)
(* placement with White to move and with Black to move.                    *)
(***************************************************************************)
PieceLists == {<<>>, <<Kg>>, <<Kg, Pn>>, <<Kg, <<"b">>, <<"K", "N", "T">>, <<"Q">>>>}

EvalInputs ==
    [white_pieces : PieceLists, black_pieces : PieceLists,
     mobility : [{"W", "B"} -> 0..MaxMobility], in_check : [{"W", "B"} -> BOOLEAN]]

InitEval ==
    /\ InitSearch
    /\ ev_in \in EvalInputs
    /\ ev_out = NoEvalOut

\* evaluate_board() on the position with side to move
evaluate_board(side) ==
    /\ ev_out[side] = <<>>
    /\ ev_out' = [ev_out EXCEPT ![side] =
                    <<EvaluateBoard(ev_in.white_pieces, ev_in.black_pieces,
                                    ev_in.mobility[side], ev_in.in_check[side], <<side>>)>>]
    /\ UNCHANGED <<ev_in, searchVars>>

NextEval == \E side \in {"W", "B"} : evaluate_board(side)

SpecEval == InitEval /\ [][NextEval]_vars

(***************************************************************************)
(* Reference values for the claims: the plain negamax value of a position, *)
(* and the value the search returns for a window when it uses no table.    *)
(***************************************************************************)
Range(s) == {s[i] : i \in 1..Len(s)}

Max(a, b) == IF a >= b THEN a ELSE b

RootPos == board0[Len(board0)]
RootMoves == _get_legal_moves(board0)

RECURSIVE Negamax(_, _)
Negamax(p, dep) ==
    IF dep = 0 \/ Game[p].moves = <<>>
    THEN _evaluate_board(<<p>>)
    ELSE LET vals == {-Negamax(MoveTab[m].to, dep - 1) : m \in Range(Game[p].moves)}
         IN CHOOSE v \in vals : \A w \in vals : v >= w

RECURSIVE SearchNoTable(_, _, _, _), SearchNoTableLoop(_, _, _, _, _, _)
SearchNoTable(p, dep, alpha, beta) ==
    IF dep = 0 \/ Game[p].game_over \/ Game[p].moves = <<>>
    THEN _evaluate_board(<<p>>)
    ELSE SearchNoTableLoop(SortedDesc(Game[p].moves), 1, dep, alpha, beta, -INF)
SearchNoTableLoop(ordered, i, dep, alpha, beta, value) ==
    LET score == -SearchNoTable(MoveTab[ordered[i]].to, dep - 1, -beta, -alpha)
        nv == Max(value, score)
        na == Max(alpha, nv)
    IN IF na >= beta \/ i = Len(ordered) THEN nv
       ELSE SearchNoTableLoop(ordered, i + 1, dep, na, beta, nv)

Done == pc = "done"

C3_UndoneOnTimeout == (Done /\ timeout_at > 0) => board = board0

(***************************************************************************)
(* C4: while no timeout has been raised, applies and undos are paired      *)
(* last-in-first-out: the board is the root position followed by exactly   *)
(* the moves of the frames that are waiting for a callee, every frame      *)
(* that has expanded stands on the position it hashed at entry, and        *)
(* between iterations and at the return the board is the one               *)
(* get_best_move was called with.                                          *)
(***************************************************************************)
C4_ApplyUndoPaired ==
    (timeout_at = 0 /\ calls > 0) =>
        /\ pc \in {"iter", "post", "done"} => board = board0
        /\ pc = "search" =>
            /\ Len(board) = Len(stack) + (IF ret # <<>> THEN 1 ELSE 0)
            /\ SubSeq(board, 1, Len(board0)) = board0
            /\ \A k \in 1..Len(stack) :
                 /\ (stack[k].kind = "node" /\ stack[k].phase = "loop")
                        => stack[k].bh = board[k]
                 /\ (k < Len(stack) \/ ret # <<>>)
                        => /\ stack[k].undo_info = "True"
                           /\ board[k + 1] = MoveTab[stack[k].ordered[stack[k].i]].to
                 /\ (k = Len(stack) /\ ret = <<>>) => stack[k].undo_info = "None"

\* a whole search with a table hit in it has returned
C4_Witness ==
    /\ Done /\ timeout_at = 0 /\ applied >= 6 /\ hit # <<>> /\ board = board0

(***************************************************************************)
(* C5: a value returned from the transposition table equals what a         *)
(* recomputation at the requested depth yields for that position: the      *)
(* plain negamax value, or the value the search returns for the same       *)
(* window when it uses no table.                                           *)
(***************************************************************************)
C5_CachedEqualsRecomputed ==
    hit # <<>> =>
        \/ hit[1].value = Negamax(hit[1].pos, hit[1].depth)
        \/ hit[1].value = SearchNoTable(hit[1].pos, hit[1].depth, hit[1].alpha, hit[1].beta)

(***************************************************************************)
(* C6: on a root position without legal moves get_best_move applies no     *)
(* move, leaves the board alone and returns None, whatever self.depth and  *)
(* the time budget are.                                                    *)
(***************************************************************************)
C6_NoMovesReturnsNone ==
    (calls > 0 /\ RootMoves = <<>>)
        => /\ applied = 0
           /\ board = board0
           /\ stack = <<>>
           /\ Done => result = None

C6_Witness ==
    /\ Done /\ RootPos = "Z" /\ calls >= 2 /\ depth >= 2 /\ d = depth /\ result = None

(***************************************************************************)
(* C7 as stated: with board.time_left = 0, a root position with legal      *)
(* moves and self.depth >= 1, iteration 1 times out and get_best_move      *)
(* returns None.                                                           *)
(***************************************************************************)
C7_ZeroBudgetReturnsNone ==
    (Done /\ time_left = <<0>> /\ RootMoves # <<>> /\ depth >= 1)
        => (result = None /\ timeout_at = 1)

(***************************************************************************)
(* C7 amended: the same, provided the clock reads later than start_time    *)
(* at the first deadline test of the call.                                 *)
(***************************************************************************)
C7_ZeroBudgetClockAdvanced ==
    (Done /\ time_left = <<0>> /\ RootMoves # <<>> /\ depth >= 1 /\ first_test > 0)
        => (result = None /\ timeout_at = 1 /\ last_iter = <<>>)

C7_Witness ==
    /\ Done /\ time_left = <<0>> /\ RootPos = "R" /\ depth >= 1 /\ first_test > 0
    /\ result = None /\ timeout_at = 1

(***************************************************************************)
(* C8: for one placement, the score with White to move is the negation of  *)
(* the score with Black to move.                                           *)
(***************************************************************************)
C8_NegamaxSymmetry ==
    (ev_out["W"] # <<>> /\ ev_out["B"] # <<>>) => ev_out["W"][1] = -ev_out["B"][1]

(***************************************************************************)
(* C9: on an engine whose table started empty and with no time pressure,   *)
(* the score of the deepest iteration is the plain negamax value of the    *)
(* root at depth self.depth, and the returned move attains it.             *)
(***************************************************************************)
C9_SearchEqualsNegamax ==
    (Done /\ calls = 1 /\ timeout_at = 0 /\ ~Expired /\ depth >= 1 /\ RootMoves # <<>>)
        => /\ best_score = Negamax(RootPos, depth)
           /\ result \in Range(RootMoves)
           /\ -Negamax(MoveTab[result].to, depth - 1) = Negamax(RootPos, depth)

(***************************************************************************)
(* C10: a step that writes the table entry of a hash writes it at the      *)
(* depth of the running _alphabeta frame, whose lookup at entry found no   *)
(* entry of at least that depth; the stored depth of a hash grows with     *)
(* every write and no entry is removed.                                    *)
(***************************************************************************)
C10_TableDepthGrows ==
    [][ /\ \A h \in DOMAIN tt : h \in DOMAIN tt' /\ tt'[h].depth >= tt[h].depth
        /\ \A h \in DOMAIN tt' :
             (h \notin DOMAIN tt \/ tt'[h] # tt[h]) =>
                /\ stack # <<>>
                /\ Top.kind = "node"
                /\ tt'[h].depth = Top.depth
                /\ h = (IF Top.phase = "entry" THEN _board_hash(board) ELSE Top.bh)
                /\ LET found == IF Top.phase = "entry" THEN TTGet(tt, h) ELSE Top.found
                   IN found = <<>> \/ found[1].depth < Top.depth
                /\ h \in DOMAIN tt => tt[h].depth < tt'[h].depth
      ]_vars

\* in a later call, a position met again below itself while the table holds an
\* entry that a deeper search has overwritten
C10_Witness ==
    /\ calls >= 2 /\ pc = "search" /\ Len(stack) > 2 /\ Top.phase = "entry"
    /\ \E k \in 1..(Len(stack) - 1) : stack[k].bh = board[Len(board)]
    /\ \E h \in DOMAIN tt : tt[h].depth >= 2

====
